---- MODULE Spec2Model ----
(***************************************************************************)
(* get_prediction(ticker, travel_date) of src/backend.py (src/app.py holds *)
(* a line-for-line copy that differs only in the wording of one message).  *)
(*                                                                         *)
(* Dates are day numbers: day 0 is the calendar day on which the clock     *)
(* starts, history lies at days <= 0.  Rates are integers standing for the *)
(* reals the code compares exactly.  The libraries the code calls are      *)
(* modelled by what they return to it:                                     *)
(*   yfinance.download     the provider's frame, or an exception;          *)
(*   Prophet.fit           an exception, or fitted parameters; the         *)
(*                         optimiser is deterministic, so the outcome for  *)
(*                         the series is drawn once and kept (fitted);     *)
(*   make_future_dataframe the history dates followed by `periods` days    *)
(*                         after the LAST history date;                    *)
(*   Prophet.predict       yhat from the fitted parameters, and bounds     *)
(*                         from unseeded random sampling (drawn per call); *)
(*   sort_values           numpy's default `quicksort`, which is not       *)
(*                         stable: the order of equal keys is whatever the *)
(*                         build produces for that input (drawn once per   *)
(*                         input and kept in argsort).                     *)
(***************************************************************************)
EXTENDS Integers, Sequences, FiniteSets, TLC

VARIABLES upstream, clock, ticks, pc, travel_date, data, df_prophet, model,
          today, forecast, today_naive, ret, fitted, negPeriods, argsort, prev

vars == <<upstream, clock, ticks, pc, travel_date, data, df_prophet, model,
          today, forecast, today_naive, ret, fitted, negPeriods, argsort, prev>>

locals == <<data, df_prophet, model, today, forecast, today_naive, ret>>

(* ------------------------------ bounds -------------------------------- *)
MaxHorizon == 4
MaxPast == 2
MaxLag == 1
MaxMissing == 1
MaxDup == 1
MaxTicks == 1

(* ------------------------- program constants -------------------------- *)
MinObservations == 30
TopK == 3
NaN == -1

\* Python values carry their type; a str is the tuple of its parts.
None == [tag |-> "None"]
Str(parts) == [tag |-> "str", value |-> parts]
Date(d) == [tag |-> "date", day |-> d]
\* The value of ret while the call has not returned.
NotReturned == << >>
DataFrame(rows) == [tag |-> "DataFrame", rows |-> rows]

NoValidDataMsg == Str(<<"Could not find valid data for this currency pair.">>)
NotEnoughMsg ==
    Str(<<"Not enough historical data available to make a reliable forecast.">>)
EmptyWindowMsg ==
    Str(<<"Could not generate a forecast for the selected period.">>)
UnexpectedMsg(e) == Str(<<"An unexpected error occurred: ", e>>)

\* A failure return that hands back the fitted model.
FailureKeepsModel(msg) == <<None, msg, model>>

Failure(msg) == <<None, msg, None>>
Success(best_days, fc, m) == <<best_days, fc, m>>

(* ----------------------- the provider's frames ------------------------ *)
\* The date of the i-th of n daily observations, the last one lying `lag`
\* days before day 0; with `gap` the provider skips two days after every
\* five (weekends).
DateOf(i, n, lag, gap) ==
    LET back == n - i
    IN  0 - lag - back - (IF gap THEN 2 * (back \div 5) ELSE 0)

\* n observations ascending by date, the first m with a missing rate, and k
\* further rows for the first date inserted after it.
Frame(n, m, k, lag, gap, cols) ==
    LET base == [i \in 1..n |->
                    [ds |-> DateOf(i, n, lag, gap),
                     y  |-> IF i <= m THEN NaN ELSE 1 + (i % 2)]]
        dups == [j \in 1..k |-> [ds |-> DateOf(1, n, lag, gap), y |-> 3]]
    IN  [columns |-> cols,
         rows |-> IF n = 0 THEN << >>
                  ELSE <<base[1]>> \o dups \o Tail(base)]

OHLC == {"Open", "High", "Low", "Close", "Volume"}

Lengths == {0} \cup ((MinObservations - 1)..(MinObservations + 1))

Upstreams ==
    { Frame(n, 0, 0, lag, gap, OHLC) :
        n \in Lengths, lag \in 0..MaxLag, gap \in BOOLEAN }
    \cup { Frame(n, m, k, 0, FALSE, OHLC) :
             n \in Lengths, m \in 0..MaxMissing, k \in 0..MaxDup }
    \cup { Frame(MinObservations, MinObservations, k, 0, FALSE, OHLC) :
             k \in 0..MaxDup }
    \cup { Frame(MinObservations, 0, 0, 0, FALSE, OHLC \ {"Close"}) }

(* --------------------------- validation ------------------------------- *)
IsNull(r) == r.y = NaN

\* The emptiness test alone, without isnull().all().
NoValidDataEmptyOnly(frame) ==
    \/ Len(frame.rows) = 0
    \/ "Close" \notin frame.columns

NoValidData(frame) ==
    \/ Len(frame.rows) = 0
    \/ "Close" \notin frame.columns
    \/ \A i \in 1..Len(frame.rows) : IsNull(frame.rows[i])

DropNa(rows) == SelectSeq(rows, LAMBDA r : ~IsNull(r))

RECURSIVE DropDuplicatesFrom(_, _)
DropDuplicatesFrom(rows, seen) ==
    IF rows = << >> THEN << >>
    ELSE IF Head(rows).ds \in seen
         THEN DropDuplicatesFrom(Tail(rows), seen)
         ELSE <<Head(rows)>>
              \o DropDuplicatesFrom(Tail(rows), seen \cup {Head(rows).ds})

DropDuplicates(rows) == DropDuplicatesFrom(rows, {})

\* drop_duplicates before dropna.
CleanDedupFirst(frame) == DropNa(DropDuplicates(frame.rows))

Clean(frame) == DropDuplicates(DropNa(frame.rows))

TooShort(df) == Len(df) < MinObservations

(* ------------------------------ Prophet ------------------------------- *)
SetMin(S) == CHOOSE x \in S : \A y \in S : x <= y
SetMax(S) == CHOOSE x \in S : \A y \in S : y <= x

\* The elements of a set of day numbers in ascending order.
SortedSeq(S) ==
    IF S = {} THEN << >>
    ELSE LET lo == SetMin(S)
             hi == SetMax(S)
         IN  SelectSeq([i \in 1..(hi - lo + 1) |-> lo + i - 1],
                       LAMBDA d : d \in S)

HistoryDates(df) == SortedSeq({df[i].ds : i \in 1..Len(df)})

FitOutcomes ==
    {[raises |-> TRUE]}
    \cup {[raises |-> FALSE, k |-> k, s |-> s] : k \in {-1, 0, 1}, s \in {0, 1}}

Prophet(history, params) ==
    [tag |-> "Prophet", history_dates |-> history, params |-> params]

\* A fit warm-started from a model kept from an earlier invocation.
YhatWarmStart(m, d) ==
    100 + m.params.k * d + m.params.s * (d % 2)
        + (IF prev = None THEN 0 ELSE 1)

Yhat(m, d) == 100 + m.params.k * d + m.params.s * (d % 2)

\* pandas.date_range(start, periods, freq='D'); a build that accepts a
\* negative number of periods returns the empty range for it.
DateRange(start, periods) ==
    IF periods <= 0 THEN << >> ELSE [i \in 1..periods |-> start + i - 1]

\* Python's s[:k]
SliceTo(s, k) ==
    IF k >= 0 THEN SubSeq(s, 1, IF k < Len(s) THEN k ELSE Len(s))
    ELSE IF Len(s) + k <= 0 THEN << >> ELSE SubSeq(s, 1, Len(s) + k)

MakeFutureDataframe(m, periods) ==
    LET last   == m.history_dates[Len(m.history_dates)]
        dates  == DateRange(last, periods + 1)
        after  == SelectSeq(dates, LAMBDA d : d > last)
    IN  m.history_dates \o SliceTo(after, periods)

Widths == {1, 2}

Predict(m, future, w) ==
    [i \in 1..Len(future) |->
        [ds |-> future[i], yhat |-> Yhat(m, future[i]),
         yhat_lower |-> Yhat(m, future[i]) - w,
         yhat_upper |-> Yhat(m, future[i]) + w]]

(* ----------------------------- selection ------------------------------ *)
\* >= in place of > at the lower end.
FutureMaskInclusive(row, now, travel) == row.ds >= now /\ row.ds <= travel

FutureMask(row, now, travel) == row.ds > now /\ row.ds <= travel

Window(fc, now, travel) ==
    SelectSeq(fc, LAMBDA row : FutureMask(row, now, travel))

Keys(rows) == [i \in 1..Len(rows) |-> rows[i].yhat]

\* ascending=True
RECURSIVE Ascending(_, _)
Ascending(keys, S) ==
    IF S = {} THEN {<< >>}
    ELSE LET low == SetMin({keys[i] : i \in S})
         IN  UNION { { <<i>> \o t : t \in Ascending(keys, S \ {i}) } :
                     i \in {j \in S : keys[j] = low} }

\* Every order of the indices S of `keys` that is descending by key.
RECURSIVE Descending(_, _)
Descending(keys, S) ==
    IF S = {} THEN {<< >>}
    ELSE LET top == SetMax({keys[i] : i \in S})
         IN  UNION { { <<i>> \o t : t \in Descending(keys, S \ {i}) } :
                     i \in {j \in S : keys[j] = top} }

ArgsortAscending(keys) == Ascending(keys, 1..Len(keys))

ArgsortDescending(keys) == Descending(keys, 1..Len(keys))

Take(rows, order) == [i \in 1..Len(order) |-> rows[order[i]]]

\* No head(3).
HeadRowsAll(rows, n) == rows

HeadRows(rows, n) == SubSeq(rows, 1, IF n < Len(rows) THEN n ELSE Len(rows))

(* ------------------------------ actions ------------------------------- *)
Start ==
    /\ clock = 0
    /\ clock = 0
    /\ ticks = 0
    /\ pc = "Idle"
    /\ travel_date = None
    /\ data = None
    /\ df_prophet = None
    /\ model = None
    /\ today = None
    /\ forecast = None
    /\ today_naive = None
    /\ ret = NotReturned
    /\ fitted = {}
    /\ negPeriods = {}
    /\ argsort = << >>
    /\ prev = None

Init == upstream \in Upstreams /\ Start

\* The caller's call: get_prediction(pair, travel_date).
Invoke ==
    /\ pc = "Idle"
    /\ \E t \in (0 - MaxPast)..MaxHorizon : travel_date' = Date(t)
    /\ pc' = "Fetching"
    /\ UNCHANGED <<upstream, clock, ticks, locals, fitted, negPeriods,
                   argsort, prev>>

\* Midnight passes.  The code reads the clock in Forecast and in Select
\* only, so a midnight before either read is all that can be observed.
Tick ==
    /\ pc \in {"Forecasting", "Selecting"}
    /\ ticks < MaxTicks
    /\ clock' = clock + 1
    /\ ticks' = ticks + 1
    /\ UNCHANGED <<upstream, pc, travel_date, locals, fitted, negPeriods,
                   argsort, prev>>

Fetch ==
    /\ pc = "Fetching"
    /\ \/ /\ data' = upstream
          /\ pc' = "Validating"
          /\ ret' = ret
       \/ /\ data' = data
          /\ ret' = Failure(UnexpectedMsg("download"))
          /\ pc' = "Failed"
    /\ UNCHANGED <<upstream, clock, ticks, travel_date, df_prophet, model,
                   today, forecast, today_naive, fitted, negPeriods, argsort,
                   prev>>

\* The length check records its failure and falls through.
ValidateFallsThrough ==
    /\ pc = "Validating"
    /\ IF NoValidData(data)
       THEN /\ ret' = Failure(NoValidDataMsg)
            /\ pc' = "Failed"
            /\ df_prophet' = df_prophet
       ELSE /\ df_prophet' = DataFrame(Clean(data))
            /\ ret' = IF TooShort(df_prophet'.rows)
                      THEN Failure(NotEnoughMsg) ELSE ret
            /\ pc' = "Forecasting"
    /\ UNCHANGED <<upstream, clock, ticks, travel_date, data, model, today,
                   forecast, today_naive, fitted, negPeriods, argsort, prev>>

Validate ==
    /\ pc = "Validating"
    /\ IF NoValidData(data)
       THEN /\ ret' = Failure(NoValidDataMsg)
            /\ pc' = "Failed"
            /\ df_prophet' = df_prophet
       ELSE /\ df_prophet' = DataFrame(Clean(data))
            /\ IF TooShort(df_prophet'.rows)
               THEN ret' = Failure(NotEnoughMsg) /\ pc' = "Failed"
               ELSE ret' = ret /\ pc' = "Forecasting"
    /\ UNCHANGED <<upstream, clock, ticks, travel_date, data, model, today,
                   forecast, today_naive, fitted, negPeriods, argsort, prev>>

Forecast ==
    /\ pc = "Forecasting"
    /\ LET days_to_forecast == travel_date.day - clock
       IN  \E o \in (IF fitted = {} THEN FitOutcomes ELSE fitted) :
           \E np \in (IF days_to_forecast + 1 >= 0 THEN {FALSE}
                      ELSE IF negPeriods = {} THEN BOOLEAN ELSE negPeriods) :
           \E w \in Widths :
             /\ fitted' = {o}
             /\ IF o.raises
                THEN /\ ret' = Failure(UnexpectedMsg("fit"))
                     /\ pc' = "Failed"
                     /\ UNCHANGED <<model, today, forecast, negPeriods>>
                ELSE /\ model' = Prophet(HistoryDates(df_prophet.rows), o)
                     /\ today' = Date(clock)
                     /\ negPeriods' = IF days_to_forecast + 1 >= 0
                                      THEN negPeriods ELSE {np}
                     /\ IF np
                        THEN /\ ret' = Failure(UnexpectedMsg("periods"))
                             /\ pc' = "Failed"
                             /\ forecast' = forecast
                        ELSE /\ forecast' = DataFrame(
                                  Predict(model', MakeFutureDataframe(
                                              model', days_to_forecast), w))
                             /\ ret' = ret
                             /\ pc' = "Selecting"
    /\ UNCHANGED <<upstream, clock, ticks, travel_date, data, df_prophet,
                   today_naive, argsort, prev>>

Select ==
    /\ pc = "Selecting"
    /\ today_naive' = Date(clock)
    /\ LET future_forecast == Window(forecast.rows, clock, travel_date.day)
           keys == Keys(future_forecast)
       IN  IF future_forecast = << >>
           THEN /\ ret' = Failure(EmptyWindowMsg)
                /\ pc' = "Failed"
                /\ argsort' = argsort
           ELSE \E order \in (IF keys \in DOMAIN argsort THEN {argsort[keys]}
                              ELSE ArgsortDescending(keys)) :
                  /\ argsort' = (keys :> order) @@ argsort
                  /\ ret' = Success(
                       DataFrame(HeadRows(Take(future_forecast, order), TopK)),
                       forecast, model)
                  /\ pc' = "Succeeded"
    /\ UNCHANGED <<upstream, clock, ticks, travel_date, data, df_prophet,
                   model, today, forecast, fitted, negPeriods, prev>>

\* The caller invokes the pipeline a second time with the same arguments.
Again ==
    /\ pc \in {"Succeeded", "Failed"}
    /\ prev = None
    /\ prev' = [travel_date |-> travel_date, data |-> data, today |-> today,
                today_naive |-> today_naive, ret |-> ret]
    /\ pc' = "Fetching"
    /\ data' = None
    /\ df_prophet' = None
    /\ model' = None
    /\ today' = None
    /\ forecast' = None
    /\ today_naive' = None
    /\ ret' = NotReturned
    /\ UNCHANGED <<upstream, clock, ticks, travel_date, fitted, negPeriods,
                   argsort>>

Next == Invoke \/ Tick \/ Fetch \/ Validate \/ Forecast \/ Select

Spec == Init /\ [][Next]_vars

NextTwice == Next \/ Again

UpstreamsTwice ==
    { Frame(n, 0, 0, lag, gap, OHLC) :
        n \in {0, MinObservations - 1, MinObservations},
        lag \in 0..MaxLag, gap \in BOOLEAN }

InitTwice == upstream \in UpstreamsTwice /\ Start

SpecTwice == InitTwice /\ [][NextTwice]_vars

(* ------------------------------ claims -------------------------------- *)
Returned == pc \in {"Succeeded", "Failed"}

\* best_days as returned to the caller.
Candidates == ret[1].rows

\* The forecast points dated in (today_naive, travel_date].
InWindow == {i \in 1..Len(forecast.rows) :
                /\ today_naive.day < forecast.rows[i].ds
                /\ forecast.rows[i].ds <= travel_date.day}

\* The dates of the frame that carry at least one observed rate.
UsableDates(frame) ==
    {frame.rows[i].ds : i \in {j \in 1..Len(frame.rows) : frame.rows[j].y # NaN}}

\* C1: every candidate of a Success is dated after today (the clock at the
\* mask, at day granularity) and no later than the travel date.
C1_CandidatesInWindow ==
    pc = "Succeeded" =>
        \A i \in 1..Len(Candidates) :
            /\ today_naive.day < Candidates[i].ds
            /\ Candidates[i].ds <= travel_date.day

\* A Success of three candidates from a forecast that holds a point dated
\* today, which the mask leaves out.
C1_Witness ==
    /\ pc = "Succeeded"
    /\ Len(Candidates) = TopK
    /\ \E i \in 1..Len(forecast.rows) : forecast.rows[i].ds = today_naive.day

\* C2 as stated: the candidates descend by predicted rate, equal rates are
\* in date order, and the candidates are the first three of the window under
\* that order.
C2_TiesEarliestFirst ==
    pc = "Succeeded" =>
        /\ \A i, j \in 1..Len(Candidates) :
             i < j => /\ Candidates[i].yhat >= Candidates[j].yhat
                      /\ Candidates[i].yhat = Candidates[j].yhat
                            => Candidates[i].ds < Candidates[j].ds
        /\ \A w \in InWindow :
             (\A i \in 1..Len(Candidates) : Candidates[i].ds # forecast.rows[w].ds)
             => \A i \in 1..Len(Candidates) :
                  \/ Candidates[i].yhat > forecast.rows[w].yhat
                  \/ /\ Candidates[i].yhat = forecast.rows[w].yhat
                     /\ Candidates[i].ds < forecast.rows[w].ds

\* C2 as amended: the candidates descend by predicted rate, are distinct
\* points of the window, and no point of the window left out has a higher
\* predicted rate than a candidate; nothing is said of equal rates.
C2_DescendingTopK ==
    pc = "Succeeded" =>
        /\ \A i, j \in 1..Len(Candidates) :
             i < j => /\ Candidates[i].yhat >= Candidates[j].yhat
                      /\ Candidates[i].ds # Candidates[j].ds
        /\ \A i \in 1..Len(Candidates) :
             \E w \in InWindow : forecast.rows[w] = Candidates[i]
        /\ \A w \in InWindow :
             (\A i \in 1..Len(Candidates) : Candidates[i].ds # forecast.rows[w].ds)
             => \A i \in 1..Len(Candidates) :
                  Candidates[i].yhat >= forecast.rows[w].yhat

\* A Success whose window holds more than three points, two of them with
\* equal predicted rates and two with different ones.
C2_Witness ==
    /\ pc = "Succeeded"
    /\ Cardinality(InWindow) > TopK
    /\ \E v, w \in InWindow :
         v # w /\ forecast.rows[v].yhat = forecast.rows[w].yhat
    /\ Candidates[1].yhat > Candidates[TopK].yhat

\* C3 as stated: a travel date of today or earlier is refused as not in the
\* future, and no forecast is produced for it.
C3_PastDateRefused ==
    (Returned /\ today # None /\ travel_date.day <= today.day) =>
        /\ ret = Failure(Str(<<"travel date not in the future">>))
        /\ forecast = None

\* C4 as stated: for a horizon >= 0 the forecast holds exactly one point for
\* each calendar day from the first historical date through the travel date.
C4_OnePointPerDay ==
    (forecast # None /\ travel_date.day >= today.day) =>
        LET first == df_prophet.rows[1].ds
        IN  /\ Len(forecast.rows) = travel_date.day - first + 1
            /\ \A i \in 1..Len(forecast.rows) :
                 forecast.rows[i].ds = first + i - 1

\* C5: a frame that holds an observed rate is refused for insufficient
\* history exactly when fewer than 30 of its dates carry an observed rate;
\* it is then never fitted, and otherwise it goes on to forecasting.
C5_InsufficientIffBelow30 ==
    (data # None /\ pc # "Validating" /\ "Close" \in data.columns
       /\ UsableDates(data) # {}) =>
        /\ ret = Failure(NotEnoughMsg)
             <=> Cardinality(UsableDates(data)) < MinObservations
        /\ Cardinality(UsableDates(data)) < MinObservations
             => pc = "Failed" /\ model = None /\ fitted = {}
        /\ Cardinality(UsableDates(data)) >= MinObservations
             => /\ pc \in {"Forecasting", "Selecting", "Succeeded", "Failed"}
                /\ Len(df_prophet.rows) = Cardinality(UsableDates(data))
                /\ pc = "Failed" => fitted # {}

\* 29 usable dates in a frame of 30 or more rows: refused.
C5_Witness ==
    /\ pc = "Failed"
    /\ ret = Failure(NotEnoughMsg)
    /\ Cardinality(UsableDates(data)) = MinObservations - 1
    /\ Len(data.rows) >= MinObservations

C7_MinOfThreeAndWindow ==
    /\ (Returned /\ today_naive # None) =>
         LET n == Cardinality(InWindow)
         IN  /\ n = 0 <=> ret = Failure(EmptyWindowMsg)
             /\ n >= 1 => /\ pc = "Succeeded"
                          /\ Len(Candidates) = IF n < TopK THEN n ELSE TopK
    /\ (Returned /\ today_naive = None) => ret # Failure(EmptyWindowMsg)

\* A Success of fewer than three candidates.
C7_Witness ==
    /\ pc = "Succeeded"
    /\ Cardinality(InWindow) = TopK - 1
    /\ Len(Candidates) = TopK - 1

\* C8: a return is either candidates (not empty), forecast and model, or
\* nothing, a reason and nothing; before the return there is no result.
C8_ExactlyOneVariant ==
    /\ pc = "Succeeded" =>
         /\ ret[1].tag = "DataFrame" /\ ret[1].rows # << >>
         /\ ret[2] = forecast /\ forecast # None
         /\ ret[3].tag = "Prophet"
    /\ pc = "Failed" =>
         /\ ret[1] = None
         /\ ret[2].tag = "str"
         /\ ret[3] = None
    /\ ~Returned => ret = NotReturned

\* A Failure returned after the model was fitted and the forecast made.
C8_Witness ==
    /\ pc = "Failed"
    /\ model # None
    /\ forecast # None

\* C9: the stages follow one another in order, each entered once; each
\* local is assigned in its own stage only; a result exists exactly in a
\* terminal state, and no step follows it.
C9_StagesInOrder ==
    /\ [](ret # NotReturned <=> Returned)
    /\ [][ /\ ~Returned
           /\ pc' # pc =>
                <<pc, pc'>> \in
                    {<<"Idle", "Fetching">>, <<"Fetching", "Validating">>,
                     <<"Validating", "Forecasting">>,
                     <<"Forecasting", "Selecting">>,
                     <<"Selecting", "Succeeded">>}
                    \cup {<<st, "Failed">> :
                            st \in {"Fetching", "Validating", "Forecasting",
                                    "Selecting"}}
           /\ data' # data => pc = "Fetching"
           /\ df_prophet' # df_prophet => pc = "Validating"
           /\ (model' # model \/ forecast' # forecast \/ fitted' # fitted)
                => pc = "Forecasting"
           /\ today_naive' # today_naive => pc = "Selecting" ]_vars

\* A series refused by validation: cleaned, and never fitted.
C9_Witness ==
    /\ pc = "Failed"
    /\ df_prophet # None
    /\ model = None
    /\ fitted = {}

\* The rates of a result: the result without its uncertainty bounds.
Rates(r) ==
    IF r[1] = None THEN r
    ELSE LET strip(rows) == [i \in 1..Len(rows) |->
                                [ds |-> rows[i].ds, yhat |-> rows[i].yhat]]
         IN  <<strip(r[1].rows), strip(r[2].rows), r[3]>>

\* C10 as stated: a second call with the same arguments that fetches the
\* same series returns the same result.
C10_Idempotent ==
    (prev # None /\ Returned /\ prev.data = data) => ret = prev.ret

\* C10 as amended: it returns the same variant, the same reason, or the same
\* candidates and forecast in dates and predicted rates, when it also reads
\* the same calendar day from the clock.
C10_SameDaySameRates ==
    (prev # None /\ Returned /\ prev.data = data
       /\ prev.today = today /\ prev.today_naive = today_naive)
    => Rates(ret) = Rates(prev.ret)

\* Two Successes on the same day that differ in their uncertainty bounds.
C10_Witness ==
    /\ prev # None
    /\ pc = "Succeeded"
    /\ prev.data = data
    /\ prev.today = today
    /\ prev.today_naive = today_naive
    /\ ret # prev.ret

====
